---- MODULE Spec2Model ----
(***************************************************************************)
(* Model of the filedb deduplicating file store.                           *)
(*                                                                         *)
(* The engine of filedb/orm.py keeps one row per file in a MySQL table     *)
(* (File) and the payload in a file named by the SHA-256 digest below      *)
(* BASEDIR.  The engine of filedb.py keeps the payload in a column of the  *)
(* row and declares the digest column unique.  Every operation is split    *)
(* into one step per access to the database or to the file system, so that *)
(* the steps of several workers interleave exactly where the code lets     *)
(* them.                                                                   *)
(***************************************************************************)
EXTENDS Integers, Sequences, FiniteSets, TLC

\* ---------------------------------------------------------------- bounds
NumWorkers == 2      \* request workers
MaxByte == 1         \* payload bytes range over 0..MaxByte
MaxId == 2           \* rows the auto-increment key may hand out
MaxLinks == 2        \* add-hit is not started above this stored count
MaxDebt == 1         \* unlink is not started below the stored count 1 - MaxDebt
MaxAccessed == 2     \* a row is not read above this access counter
MaxSize == 3         \* streamed payloads have at most this many bytes
MaxOffset == 4       \* positions of a Range header range over 0..MaxOffset
MaxChunk == 3        \* chunk sizes range over 1..MaxChunk
MaxChunks == 3       \* an iterator of chunks yields at most this many
NumInstances == 2    \* model instances that share one FileProperty
MaxOld == 2          \* no more ids than this wait in old_values

Workers == 1..NumWorkers
Ids == 1..MaxId

\* Payloads: the empty payload and the one-byte payloads.
Data == {<<>>} \cup {<<b>> : b \in 0..MaxByte}

\* hashlib.sha256(data).hexdigest(): a collision-free digest, here the
\* bijective base-(MaxByte+2) numeral of the bytes.
RECURSIVE Sha256(_)
Sha256(data) ==
    IF data = <<>> THEN 0
    ELSE (data[1] + 1) + (MaxByte + 2) * Sha256(Tail(data))

Digests == {Sha256(d) : d \in Data \ {<<>>}}

VARIABLES
    files,      \* the File table: live id -> row
    nextId,     \* next value of the auto-increment primary key
    fs,         \* BASEDIR: digest of an existing blob file -> its bytes
    pc,         \* worker -> position in its current operation
    loc,        \* worker -> local variables of its current operation
    ret,        \* concurrent runs: worker -> outcome of its last operation
    sched,      \* "serial": one request at a time; "concurrent": interleaved
    hist,       \* serial runs: the last completed event
    owed,       \* concurrent runs: id -> count expected from the updates
    tampered,   \* a blob was removed or altered behind the engine's back
    instances,  \* model instance -> its file id field and its save method
    field       \* the FileProperty of the model: autosave and old_values

vars == <<files, nextId, fs, pc, loc, ret, sched, hist, owed, tampered,
          instances, field>>

\* ------------------------------------------------------------ primitives
NoRec == [id |-> 0, sha256sum |-> 0, size |-> 0, hardlinks |-> 0,
          last_access |-> 0, accessed |-> 0]
NoRet == [op |-> "none"]

\* No instance of a model with a FileProperty, and no such property.
NoInstances == <<>>
NoField == [autosave |-> FALSE, old_values |-> <<>>]

\* An unsaved File instance as built by File._add (orm.py).
NewRecord(data, checksum) ==
    [id |-> 0, sha256sum |-> checksum, size |-> Len(data), hardlinks |-> 1,
     last_access |-> 0, accessed |-> 0]

\* peewee Model.get(expr): the ids of the rows matching the digest.
BySha(checksum) == {i \in DOMAIN files : files[i].sha256sum = checksum}

\* peewee Model.save() of a loaded instance: UPDATE ... WHERE id = rec.id
\* writes every field of the in-memory instance; no row, no effect.
SaveRow(tbl, rec) ==
    IF rec.id \in DOMAIN tbl
    THEN [tbl EXCEPT ![rec.id] = rec]
    ELSE tbl

\* peewee Model.save() of an unsaved instance: INSERT with a fresh id.
InsertRow(tbl, rec, id) ==
    [i \in DOMAIN tbl \cup {id} |->
        IF i = id THEN [rec EXCEPT !.id = id] ELSE tbl[i]]

\* peewee Model.delete_instance(): DELETE ... WHERE id = rec.id.
DeleteRow(tbl, id) == [i \in DOMAIN tbl \ {id} |-> tbl[i]]

DeleteCount(tbl, id) == IF id \in DOMAIN tbl THEN 1 ELSE 0

\* file.write(data) that stores nothing.
WriteFileEmpty(dir, checksum, data) ==
    [d \in DOMAIN dir \cup {checksum} |->
        IF d = checksum THEN <<>> ELSE dir[d]]

\* open(path, 'wb'); file.write(data): the file then holds exactly data.
WriteFile(dir, checksum, data) ==
    [d \in DOMAIN dir \cup {checksum} |->
        IF d = checksum THEN data ELSE dir[d]]

RemoveFile(dir, checksum) == [d \in DOMAIN dir \ {checksum} |-> dir[d]]

\* File.exists answering False for every file.
ExistsNever(checksum) == checksum \in DOMAIN fs /\ FALSE

\* File.exists: self.path.is_file().
Exists(checksum) == checksum \in DOMAIN fs

\* Stored count of row id in table tbl, -1 when there is no such row.
StoredLinks(tbl, id) == IF id \in DOMAIN tbl THEN tbl[id].hardlinks ELSE -1

AllIdle == \A w \in Workers : pc[w] = "idle"

\* A request is taken by an idle worker; serial runs take one at a time.
CanStart(w) ==
    /\ pc[w] = "idle"
    /\ sched = "serial" => AllIdle

Blank == [op |-> "none", data |-> <<>>, rec |-> NoRec, force |-> FALSE,
          todo |-> {}, refs |-> <<>>, wrote |-> FALSE, links0 |-> 0,
          blob0 |-> FALSE, after |-> [id |-> 0, sha |-> 0, links |-> 0],
          interactive |-> TRUE, simulate |-> TRUE, said |-> {},
          report |-> [count |-> 0, deleted |-> 0, kept |-> 0, updated |-> 0],
          prev |-> [op |-> "none"], stream |-> [op |-> "none"]]

\* What the caller of worker w's operation observes when it returns: the
\* exception (or "none"), the returned value, the instance in memory (its
\* id, digest and count), and the circumstances of the call kept in loc[w].
Event(w, exc, val, rec, wrote) ==
    [op |-> loc[w].op, data |-> loc[w].data, force |-> loc[w].force,
     exc |-> exc, val |-> val, id |-> rec.id, sha |-> rec.sha256sum,
     links |-> rec.hardlinks, wrote |-> wrote, links0 |-> loc[w].links0,
     blob0 |-> loc[w].blob0, after |-> loc[w].after]

\* Count expected from completed updates, kept in concurrent runs; it
\* stops counting once it has left 0..MaxLinks.
Bump(o, delta) == IF o \in 0..MaxLinks THEN o + delta ELSE o

Owes(id, n) ==
    IF sched = "concurrent" /\ id \in Ids THEN [owed EXCEPT ![id] = n]
    ELSE owed

\* The event log of a serial run: the event just completed, until the next
\* request is taken.
Logged(ev) == IF sched = "serial" THEN ev ELSE hist

\* Worker w takes a request: what the previous one left is cleared.
Begin(w) ==
    /\ hist' = IF sched = "serial" THEN NoRet ELSE hist
    /\ ret' = IF sched = "serial" THEN ret ELSE [ret EXCEPT ![w] = NoRet]

\* Circumstances of a call that only the log of a serial run records.
Note(x, none) == IF sched = "serial" THEN x ELSE none

\* The record returned by the event just completed when that was a
\* successful add of the same data.
Prior(data) ==
    IF hist.op = "add" /\ hist.exc = "none" /\ hist.data = data
    THEN [id |-> hist.id, sha |-> hist.sha, links |-> hist.links]
    ELSE Blank.after

\* What a concurrent run keeps of an outcome.
Outcome(ev) ==
    [op |-> ev.op, exc |-> ev.exc, id |-> ev.id, sha |-> ev.sha,
     links |-> ev.links, force |-> ev.force]

\* The caller of worker w receives outcome r.
Answer(w, r) ==
    /\ ret' = IF sched = "serial" THEN ret
              ELSE [ret EXCEPT ![w] = Outcome(r)]
    /\ hist' = Logged(r)

\* Worker w returns outcome r to its caller and is idle again.
Return(w, r) ==
    /\ pc' = [pc EXCEPT ![w] = "idle"]
    /\ loc' = [loc EXCEPT ![w] = Blank]
    /\ Answer(w, r)

InitStore ==
    /\ files = <<>>
    /\ nextId = 1
    /\ fs = <<>>
    /\ pc = [w \in Workers |-> "idle"]
    /\ loc = [w \in Workers |-> Blank]
    /\ ret = [w \in Workers |-> NoRet]
    /\ hist = NoRet
    /\ owed = [i \in Ids |-> 0]
    /\ tampered = FALSE
    /\ instances = NoInstances
    /\ field = NoField

Init ==
    /\ InitStore
    /\ sched = "serial"

InitConc ==
    /\ InitStore
    /\ sched = "concurrent"

\* ------------------------------------------------- File.add (orm.py 78)
\* Resolve the argument to bytes, refuse empty data, hash, and look the
\* digest up in the table.
AddGet(w, data) ==
    /\ CanStart(w)
    /\ LET checksum == Sha256(data)
           start == [Blank EXCEPT !.op = "add", !.data = data,
                                  !.blob0 = Note(Exists(checksum), FALSE),
                                  !.after = Note(Prior(data), Blank.after)]
       IN  IF data = <<>>
           THEN /\ pc' = pc
                /\ loc' = loc
                /\ Answer(w, [Event(w, "ValueError", 0, NoRec, FALSE)
                                 EXCEPT !.op = "add"])
           ELSE /\ \/ /\ BySha(checksum) = {}
                      /\ nextId + Cardinality({v \in Workers :
                            pc[v] \in {"add_write", "add_insert"}}) <= MaxId
                      /\ pc' = [pc EXCEPT ![w] = "add_write"]
                      /\ loc' = [loc EXCEPT ![w] =
                            [start EXCEPT !.rec = NewRecord(data, checksum)]]
                   \/ \E i \in BySha(checksum) :
                      /\ files[i].hardlinks < MaxLinks
                      /\ pc' = [pc EXCEPT ![w] = "add_exists"]
                      /\ loc' = [loc EXCEPT ![w] =
                            [start EXCEPT !.rec = files[i],
                                !.links0 = Note(files[i].hardlinks, 0)]]
                /\ Begin(w)
    /\ UNCHANGED <<files, nextId, fs, sched, owed, tampered, instances, field>>

\* File.add taking a row whose blob is missing for a miss.
AddExistsMiss(w) ==
    /\ pc[w] = "add_exists"
    /\ IF Exists(loc[w].rec.sha256sum)
       THEN /\ pc' = [pc EXCEPT ![w] = "add_inc"]
            /\ loc' = loc
       ELSE /\ pc' = [pc EXCEPT ![w] = "add_write"]
            /\ loc' = [loc EXCEPT ![w].rec =
                  NewRecord(loc[w].data, loc[w].rec.sha256sum)]
    /\ UNCHANGED <<files, nextId, fs, ret, sched, hist, owed, tampered, instances, field>>

\* File.add counting an existing row without a look at its blob.
AddExistsBlind(w) ==
    /\ pc[w] = "add_exists"
    /\ pc' = [pc EXCEPT ![w] = "add_inc"]
    /\ UNCHANGED <<files, nextId, fs, loc, ret, sched, hist, owed, tampered, instances, field>>

\* orm.py 104: if not record.exists.
AddExists(w) ==
    /\ pc[w] = "add_exists"
    /\ pc' = [pc EXCEPT ![w] =
          IF Exists(loc[w].rec.sha256sum) THEN "add_inc" ELSE "add_fix"]
    /\ UNCHANGED <<files, nextId, fs, loc, ret, sched, hist, owed, tampered, instances, field>>

\* orm.py 106-107: rewrite the missing blob of an existing row.  open() may
\* fail before the file is created; write() may fail after open() has
\* created and truncated it.
AddFix(w) ==
    /\ pc[w] = "add_fix"
    /\ LET rec == loc[w].rec
       IN  \/ /\ fs' = WriteFile(fs, rec.sha256sum, loc[w].data)
              /\ pc' = [pc EXCEPT ![w] = "add_inc"]
              /\ loc' = [loc EXCEPT ![w].wrote = Note(TRUE, FALSE)]
              /\ UNCHANGED <<ret, hist>>
           \/ /\ fs' = fs
              /\ Return(w, Event(w, "OSError", 0, rec, FALSE))
           \/ /\ fs' = WriteFile(fs, rec.sha256sum, <<>>)
              /\ Return(w, Event(w, "OSError", 0, rec, TRUE))
    /\ UNCHANGED <<files, nextId, sched, owed, tampered, instances, field>>

\* File.add counting an existing file twice.
AddIncTwice(w) ==
    /\ pc[w] = "add_inc"
    /\ LET rec == [loc[w].rec EXCEPT !.hardlinks = @ + 2]
       IN  /\ files' = SaveRow(files, rec)
           /\ owed' = Owes(rec.id, Bump(owed[rec.id], 1))
           /\ Return(w, Event(w, "none", rec.id, rec, loc[w].wrote))
    /\ UNCHANGED <<nextId, fs, sched, tampered, instances, field>>

\* orm.py 109-111: record.hardlinks += 1; record.save(); return record.
AddInc(w) ==
    /\ pc[w] = "add_inc"
    /\ LET rec == [loc[w].rec EXCEPT !.hardlinks = @ + 1]
       IN  /\ files' = SaveRow(files, rec)
           /\ owed' = Owes(rec.id, Bump(owed[rec.id], 1))
           /\ Return(w, Event(w, "none", rec.id, rec, loc[w].wrote))
    /\ UNCHANGED <<nextId, fs, sched, tampered, instances, field>>

\* File._add saving the row before it writes the blob.
AddWriteSaved(w) ==
    /\ pc[w] = "add_write"
    /\ nextId <= MaxId
    /\ LET rec == [loc[w].rec EXCEPT !.id = nextId]
       IN  /\ files' = InsertRow(files, rec, nextId)
           /\ nextId' = nextId + 1
           /\ \/ /\ fs' = WriteFile(fs, rec.sha256sum, loc[w].data)
                 /\ Return(w, Event(w, "none", rec.id, rec, TRUE))
              \/ /\ fs' = fs
                 /\ Return(w, Event(w, "OSError", 0, loc[w].rec, FALSE))
    /\ UNCHANGED <<sched, owed, tampered, instances, field>>

\* File._add (orm.py 116-129): build the instance, write the blob, chmod.
\* Any of open(), write() and chmod() may raise; the row is not yet saved.
AddWrite(w) ==
    /\ pc[w] = "add_write"
    /\ LET rec == loc[w].rec
       IN  \/ /\ fs' = WriteFile(fs, rec.sha256sum, loc[w].data)
              /\ pc' = [pc EXCEPT ![w] = "add_insert"]
              /\ loc' = [loc EXCEPT ![w].wrote = Note(TRUE, FALSE)]
              /\ UNCHANGED <<ret, hist>>
           \/ /\ fs' = fs
              /\ Return(w, Event(w, "OSError", 0, rec, FALSE))
           \/ /\ fs' = WriteFile(fs, rec.sha256sum, <<>>)
              /\ Return(w, Event(w, "OSError", 0, rec, TRUE))
           \/ /\ fs' = WriteFile(fs, rec.sha256sum, loc[w].data)
              /\ Return(w, Event(w, "OSError", 0, rec, TRUE))
    /\ UNCHANGED <<files, nextId, sched, owed, tampered, instances, field>>

\* File._add (orm.py 130-131): record.save() inserts the row.
AddInsert(w) ==
    /\ pc[w] = "add_insert"
    /\ nextId <= MaxId
    /\ LET rec == [loc[w].rec EXCEPT !.id = nextId]
       IN  /\ files' = InsertRow(files, rec, nextId)
           /\ nextId' = nextId + 1
           /\ owed' = Owes(rec.id, 1)
           /\ Return(w, Event(w, "none", rec.id, rec, TRUE))
    /\ UNCHANGED <<fs, sched, tampered, instances, field>>

\* ---------------------------------------------- File.unlink (orm.py 212)
\* Load the row (File.get(File.id == ident)), then unlink(force):
\* self.hardlinks += -1 in memory and the choice of the branch.
Loaded(w, name, id, force) ==
    [loc[w] EXCEPT !.op = name, !.force = force,
        !.rec = [files[id] EXCEPT !.hardlinks = @ - 1],
        !.links0 = Note(files[id].hardlinks, 0),
        !.blob0 = Note(Exists(files[id].sha256sum), FALSE)]

\* What the caller of unlink() receives: the exception raised to it (the
\* errors of path.unlink() are caught and logged) and the value returned
\* (0 for False, 1 for True and for the one row delete_instance() deletes).
Seen(ev) ==
    [raised |-> IF ev.exc \in {"FileNotFoundError", "PermissionError"}
                THEN "none" ELSE ev.exc,
     val |-> ev.val]

\* The event just completed when that was an unlink() that found the blob
\* missing, with what its caller received.
Missing ==
    IF hist.op = "unlink" /\ hist.exc = "FileNotFoundError"
    THEN [id |-> hist.id, sha |-> hist.sha, links |-> hist.links,
          seen |-> Seen(hist)]
    ELSE Blank.after

\* The branch taken on force alone.
DeletesForced(rec, force) == rec.hardlinks = 0 /\ force

\* if not self.hardlinks or force
Deletes(rec, force) == rec.hardlinks = 0 \/ force

UnlinkGet(w, id, force) ==
    /\ CanStart(w)
    /\ id \in DOMAIN files => files[id].hardlinks >= 1 - MaxDebt
    /\ IF id \notin DOMAIN files
       THEN /\ pc' = pc
            /\ loc' = loc
            /\ Answer(w, [Event(w, "DoesNotExist", 0, NoRec, FALSE)
                             EXCEPT !.op = "unlink", !.force = force,
                                    !.id = id])
       ELSE /\ loc' = [loc EXCEPT ![w] =
                  [Loaded(w, "unlink", id, force)
                      EXCEPT !.after = Note(Missing, Blank.after)]]
            /\ pc' = [pc EXCEPT ![w] =
                  IF Deletes(loc'[w].rec, force)
                  THEN "unlink_fs" ELSE "unlink_save"]
            /\ Begin(w)
    /\ UNCHANGED <<files, nextId, fs, sched, owed, tampered, instances, field>>

\* unlink() returns r: to the caller, or to the loop of File.purge.
Finish(w, r) ==
    IF loc[w].op \in {"purge", "clean"}
    THEN /\ pc' = [pc EXCEPT ![w] =
               IF loc[w].op = "purge" THEN "purge_get" ELSE "clean_next"]
         /\ loc' = loc
         /\ UNCHANGED <<ret, hist>>
    ELSE Return(w, r)

\* path.unlink() that passes over a missing file (missing_ok).
PathUnlinkQuiet(dir, checksum, allowed) ==
    IF checksum \in DOMAIN dir /\ ~allowed THEN "PermissionError"
    ELSE "ok"

\* self.path.unlink() (pathlib): FileNotFoundError when there is no such
\* file, PermissionError when the file may not be removed (allowed tells
\* whether the permissions of BASEDIR let the caller remove it).
PathUnlink(dir, checksum, allowed) ==
    IF checksum \notin DOMAIN dir THEN "FileNotFoundError"
    ELSE IF ~allowed THEN "PermissionError"
    ELSE "ok"

\* orm.py 217-228: remove the blob; both errors are logged and answered
\* with False, leaving the row as it is.
UnlinkFs(w) ==
    /\ pc[w] = "unlink_fs"
    /\ \E allowed \in BOOLEAN :
       LET rec == loc[w].rec
           res == PathUnlink(fs, rec.sha256sum, allowed)
       IN  IF res = "ok"
           THEN /\ fs' = RemoveFile(fs, rec.sha256sum)
                /\ pc' = [pc EXCEPT ![w] = "unlink_del"]
                /\ UNCHANGED <<loc, ret, hist>>
           ELSE /\ fs' = fs
                /\ Finish(w, Event(w, res, 0, rec, FALSE))
    /\ UNCHANGED <<files, nextId, sched, owed, tampered, instances, field>>

\* orm.py 230: return self.delete_instance().
UnlinkDel(w) ==
    /\ pc[w] = "unlink_del"
    /\ LET rec == loc[w].rec
       IN  /\ files' = DeleteRow(files, rec.id)
           /\ owed' = Owes(rec.id, 0)
           /\ Finish(w, Event(w, "none", DeleteCount(files, rec.id), rec,
                              FALSE))
    /\ UNCHANGED <<nextId, fs, sched, tampered, instances, field>>

\* orm.py 232-233: self.save(); return True.
UnlinkSave(w) ==
    /\ pc[w] = "unlink_save"
    /\ LET rec == loc[w].rec
       IN  /\ files' = SaveRow(files, rec)
           /\ owed' = Owes(rec.id, Bump(owed[rec.id], -1))
           /\ Finish(w, Event(w, "none", 1, rec, FALSE))
    /\ UNCHANGED <<nextId, fs, sched, tampered, instances, field>>

\* ----------------------------------------------- File.purge (orm.py 134)
\* The orphans are visited in ascending order of id.
Purge(w, orphans) ==
    /\ CanStart(w)
    /\ orphans # {}
    /\ pc' = [pc EXCEPT ![w] = "purge_get"]
    /\ loc' = [loc EXCEPT ![w] = [Blank EXCEPT !.op = "purge",
                                               !.todo = orphans]]
    /\ Begin(w)
    /\ UNCHANGED <<files, nextId, fs, sched, owed, tampered, instances, field>>

Lowest(S) == CHOOSE i \in S : \A j \in S : i <= j

\* orm.py 136-143: next orphan; cls.get, then record.unlink(force=True).
PurgeGet(w) ==
    /\ pc[w] = "purge_get"
    /\ IF loc[w].todo = {}
       THEN Return(w, Event(w, "none", 0, loc[w].rec, FALSE))
       ELSE LET id == Lowest(loc[w].todo)
                rest == loc[w].todo \ {id}
            IN  /\ IF id \notin DOMAIN files
                   THEN /\ loc' = [loc EXCEPT ![w].todo = rest]
                        /\ pc' = pc
                   ELSE /\ loc' = [loc EXCEPT ![w] =
                              [Loaded(w, "purge", id, TRUE)
                                  EXCEPT !.todo = rest]]
                        /\ pc' = [pc EXCEPT ![w] = "unlink_fs"]
                /\ UNCHANGED <<ret, hist>>
    /\ UNCHANGED <<files, nextId, fs, sched, owed, tampered, instances, field>>

\* ------------------------------------- File.update_hardlinks (orm.py 147)
\* references maps ids to the counts the rows are to be set to.
UpdateHardlinks(w, references) ==
    /\ CanStart(w)
    /\ DOMAIN references # {}
    /\ pc' = [pc EXCEPT ![w] = "fix_get"]
    /\ loc' = [loc EXCEPT ![w] = [Blank EXCEPT !.op = "update_hardlinks",
                                               !.todo = DOMAIN references,
                                               !.refs = references]]
    /\ Begin(w)
    /\ UNCHANGED <<files, nextId, fs, sched, owed, tampered, instances, field>>

\* orm.py 149-155: next ident; cls.get; record.hardlinks = references[ident].
FixGet(w) ==
    /\ pc[w] = "fix_get"
    /\ IF loc[w].todo = {}
       THEN Return(w, Event(w, "none", 0, loc[w].rec, FALSE))
       ELSE LET id == Lowest(loc[w].todo)
                rest == loc[w].todo \ {id}
            IN  /\ IF id \notin DOMAIN files
                   THEN /\ loc' = [loc EXCEPT ![w].todo = rest]
                        /\ pc' = pc
                   ELSE /\ loc' = [loc EXCEPT ![w].todo = rest,
                              ![w].links0 = Note(files[id].hardlinks, 0),
                              ![w].rec = [files[id] EXCEPT
                                  !.hardlinks = loc[w].refs[id]]]
                        /\ pc' = [pc EXCEPT ![w] = "fix_save"]
                /\ UNCHANGED <<ret, hist>>
    /\ UNCHANGED <<files, nextId, fs, sched, owed, tampered, instances, field>>

\* orm.py 156: record.save().
FixSave(w) ==
    /\ pc[w] = "fix_save"
    /\ LET rec == loc[w].rec
       IN  /\ files' = SaveRow(files, rec)
           /\ owed' = Owes(rec.id, IF rec.id \in DOMAIN files
                                   THEN rec.hardlinks ELSE owed[rec.id])
           /\ pc' = [pc EXCEPT ![w] = "fix_get"]
    /\ UNCHANGED <<nextId, fs, loc, ret, sched, hist, tampered, instances, field>>

\* ------------------------------ File.read / data / consistent (orm.py 172)
\* The content the event just completed stored under row id, when that was
\* a successful add returning the row; <<>> otherwise.
Added(id) ==
    IF hist.op = "add" /\ hist.exc = "none" /\ hist.id = id
    THEN hist.data ELSE <<>>

\* The row of the event just completed when that was a verified read of
\* row id that raised ChecksumMismatch.
Mismatched(id) ==
    IF hist.op = "data" /\ hist.exc = "ChecksumMismatch" /\ hist.id = id
    THEN [id |-> hist.id, sha |-> hist.sha, links |-> hist.links]
    ELSE Blank.after

\* What the caller of read, data or consistent observes: the exception (or
\* "none"), the value of consistent (1 for True, 0 for False), the bytes
\* returned, and whether the blob file could be opened for reading.
ReadEvent(w, exc, val, bytes_, readable) ==
    [op |-> loc[w].op, exc |-> exc, val |-> val, bytes |-> bytes_,
     id |-> loc[w].rec.id, sha |-> loc[w].rec.sha256sum,
     links |-> loc[w].rec.hardlinks, accessed |-> loc[w].rec.accessed,
     data |-> loc[w].data, readable |-> readable, after |-> loc[w].after,
     force |-> FALSE]

\* File.get(File.id == ident) followed by record.read(), record.data,
\* record.consistent or record.touch(), as how tells.
ReadGet(w, id, how) ==
    /\ CanStart(w)
    /\ id \in DOMAIN files => files[id].accessed < MaxAccessed
    /\ IF id \notin DOMAIN files
       THEN /\ pc' = pc
            /\ loc' = loc
            /\ Answer(w, [op |-> how, exc |-> "DoesNotExist", val |-> 0,
                          bytes |-> <<>>, id |-> id, sha |-> 0, links |-> 0,
                          accessed |-> 0, data |-> <<>>, readable |-> FALSE,
                          after |-> Blank.after, force |-> FALSE])
       ELSE /\ pc' = [pc EXCEPT ![w] = "read_touch"]
            /\ loc' = [loc EXCEPT ![w] =
                  [Blank EXCEPT !.op = how, !.rec = files[id],
                                !.data = Note(Added(id), <<>>),
                                !.after = Note(Mismatched(id), Blank.after)]]
            /\ Begin(w)
    /\ UNCHANGED <<files, nextId, fs, sched, owed, tampered, instances, field>>

\* File.touch that also clears the count of hard links.
TouchLinks(rec) ==
    [rec EXCEPT !.accessed = @ + 1, !.last_access = 1, !.hardlinks = 0]

\* File.touch (orm.py 166-170): self.accessed += 1; self.last_access =
\* datetime.now() (1 stands for a time, 0 for None); self.save() follows.
Touch(rec) == [rec EXCEPT !.accessed = @ + 1, !.last_access = 1]

\* File.touch, called by the caller or by read() (orm.py 207) before it
\* opens the blob.
ReadTouch(w) ==
    /\ pc[w] = "read_touch"
    /\ files' = SaveRow(files, Touch(loc[w].rec))
    /\ IF loc[w].op = "touch"
       THEN Return(w, [ReadEvent(w, "none", 0, <<>>, FALSE)
                          EXCEPT !.accessed = @ + 1])
       ELSE /\ loc' = [loc EXCEPT ![w].rec = Touch(loc[w].rec)]
            /\ pc' = [pc EXCEPT ![w] = "read_open"]
            /\ UNCHANGED <<ret, hist>>
    /\ UNCHANGED <<nextId, fs, sched, owed, tampered, instances, field>>

\* open(path, 'rb'): FileNotFoundError when there is no such file,
\* PermissionError when the file may not be read.
OpenRead(dir, checksum, readable) ==
    IF checksum \notin DOMAIN dir THEN "FileNotFoundError"
    ELSE IF ~readable THEN "PermissionError"
    ELSE "ok"

\* File.data accepting whatever bytes it read.
DataUnchecked(rec, bytes_) == "none"

\* File.data (orm.py 176-181): the digest of the bytes read against the
\* stored digest.
Data_(rec, bytes_) ==
    IF Sha256(bytes_) = rec.sha256sum THEN "none" ELSE "ChecksumMismatch"

\* File.consistent (orm.py 196-203): what it makes of the outcome of
\* self.data; any other exception passes through to the caller.
Consistent(exc) ==
    IF exc = "none" THEN [exc |-> "none", val |-> 1]
    ELSE IF exc \in {"ChecksumMismatch", "FileNotFoundError"}
    THEN [exc |-> "none", val |-> 0]
    ELSE [exc |-> exc, val |-> 0]

\* orm.py 209-210 and what data and consistent make of the bytes.
ReadOpen(w) ==
    /\ pc[w] = "read_open"
    /\ \E readable \in BOOLEAN :
       LET rec == loc[w].rec
           res == OpenRead(fs, rec.sha256sum, readable)
           bytes_ == IF res = "ok" THEN fs[rec.sha256sum] ELSE <<>>
           exc == IF res # "ok" THEN res
                  ELSE IF loc[w].op = "read" THEN "none"
                  ELSE Data_(rec, bytes_)
           out == IF exc = "none" THEN bytes_ ELSE <<>>
       IN  IF loc[w].op = "consistent"
           THEN Return(w, ReadEvent(w, Consistent(exc).exc,
                                    Consistent(exc).val, <<>>, readable))
           ELSE Return(w, ReadEvent(w, exc, 0, out, readable))
    /\ UNCHANGED <<files, nextId, fs, sched, owed, tampered, instances, field>>

\* ------------------------------------------------------- the environment
\* A blob file is removed or overwritten from outside the engine.
Tamper(checksum, bytes) ==
    /\ AllIdle
    /\ Exists(checksum)
    /\ fs' = IF bytes = fs[checksum] THEN RemoveFile(fs, checksum)
             ELSE WriteFile(fs, checksum, bytes)
    /\ tampered' = TRUE
    /\ hist' = IF sched = "serial" THEN [op |-> "tamper"] ELSE hist
    /\ UNCHANGED <<files, nextId, pc, loc, ret, sched, owed, instances, field>>

\* ------------------------------------------------------------ behaviours
References == UNION {[S -> 0..MaxLinks] : S \in SUBSET Ids}

Next ==
    \/ \E w \in Workers, data \in Data : AddGet(w, data)
    \/ \E w \in Workers : AddExists(w)
    \/ \E w \in Workers : AddFix(w)
    \/ \E w \in Workers : AddInc(w)
    \/ \E w \in Workers : AddWrite(w)
    \/ \E w \in Workers : AddInsert(w)
    \/ \E w \in Workers, id \in Ids, force \in BOOLEAN :
          UnlinkGet(w, id, force)
    \/ \E w \in Workers : UnlinkFs(w)
    \/ \E w \in Workers : UnlinkDel(w)
    \/ \E w \in Workers : UnlinkSave(w)
    \/ \E w \in Workers, orphans \in SUBSET Ids : Purge(w, orphans)
    \/ \E w \in Workers : PurgeGet(w)
    \/ \E w \in Workers, references \in References :
          UpdateHardlinks(w, references)
    \/ \E w \in Workers : FixGet(w)
    \/ \E w \in Workers : FixSave(w)
    \/ \E w \in Workers, id \in Ids,
          how \in {"read", "data", "consistent", "touch"} :
             ReadGet(w, id, how)
    \/ \E w \in Workers : ReadTouch(w)
    \/ \E w \in Workers : ReadOpen(w)
    \/ \E checksum \in Digests, bytes \in Data : Tamper(checksum, bytes)

\* Requests served one at a time.
Spec == Init /\ [][Next]_vars

\* The request path (add and unlink) served by concurrent workers.
NextConc ==
    \/ \E w \in Workers, data \in Data : AddGet(w, data)
    \/ \E w \in Workers : AddExists(w)
    \/ \E w \in Workers : AddFix(w)
    \/ \E w \in Workers : AddInc(w)
    \/ \E w \in Workers : AddWrite(w)
    \/ \E w \in Workers : AddInsert(w)
    \/ \E w \in Workers, id \in Ids, force \in BOOLEAN :
          UnlinkGet(w, id, force)
    \/ \E w \in Workers : UnlinkFs(w)
    \/ \E w \in Workers : UnlinkDel(w)
    \/ \E w \in Workers : UnlinkSave(w)

SpecConc == InitConc /\ [][NextConc]_vars

\* Concurrent releases of the rows of a store that adds have filled: every
\* row has its own digest, a count of at least 1, and its blob.
PayloadOf(checksum) == CHOOSE d \in Data : Sha256(d) = checksum

SeedTables ==
    {tbl \in UNION {[1..n -> [sha256sum : Digests, hardlinks : 1..MaxLinks]] :
                        n \in 1..MaxId} :
        \A i, j \in DOMAIN tbl : tbl[i].sha256sum = tbl[j].sha256sum => i = j}

Seeded(tbl) ==
    [i \in DOMAIN tbl |->
        [NewRecord(PayloadOf(tbl[i].sha256sum), tbl[i].sha256sum)
            EXCEPT !.id = i, !.hardlinks = tbl[i].hardlinks]]

InitRelease ==
    /\ \E tbl \in SeedTables :
          /\ files = Seeded(tbl)
          /\ nextId = Len(tbl) + 1
          /\ fs = [d \in {tbl[i].sha256sum : i \in DOMAIN tbl} |->
                      PayloadOf(d)]
    /\ pc = [w \in Workers |-> "idle"]
    /\ loc = [w \in Workers |-> Blank]
    /\ ret = [w \in Workers |-> NoRet]
    /\ hist = NoRet
    /\ owed = [i \in Ids |-> 0]
    /\ tampered = FALSE
    /\ instances = NoInstances
    /\ field = NoField
    /\ sched = "concurrent"

NextRelease ==
    \/ \E w \in Workers, id \in Ids, force \in BOOLEAN :
          UnlinkGet(w, id, force)
    \/ \E w \in Workers : UnlinkFs(w)
    \/ \E w \in Workers : UnlinkDel(w)
    \/ \E w \in Workers : UnlinkSave(w)

SpecRelease == InitRelease /\ [][NextRelease]_vars

\* ------------------------------------------- File.from_bytes (filedb.py)
\* The engine of filedb.py: the payload is a column of the row and the
\* sha256sum column is declared unique.
NewFile(bytes_) ==
    [id |-> 0, bytes |-> bytes_, sha256sum |-> Sha256(bytes_),
     size |-> Len(bytes_), accessed |-> 0]

\* What the caller of from_bytes receives; lost tells that save() hit the
\* uniqueness constraint.
FileOutcome(exc, file, lost) ==
    [op |-> "from_bytes", exc |-> exc, id |-> file.id,
     sha |-> file.sha256sum, lost |-> lost]

FileReturn(w, r) ==
    /\ pc' = [pc EXCEPT ![w] = "idle"]
    /\ loc' = [loc EXCEPT ![w] = Blank]
    /\ ret' = [ret EXCEPT ![w] = r]

\* filedb.py 95-100 and 85-92: look the digest up; build the file on a
\* miss and, with save, go on to save_unique().
FromBytes(w, bytes_, save) ==
    /\ CanStart(w)
    /\ LET found == BySha(Sha256(bytes_))
       IN  \/ \E i \in found : FileReturn(w, FileOutcome("none", files[i], FALSE))
           \/ /\ found = {}
              /\ ~save
              /\ FileReturn(w, FileOutcome("none", NewFile(bytes_), FALSE))
           \/ /\ found = {}
              /\ save
              /\ pc' = [pc EXCEPT ![w] = "save_unique"]
              /\ loc' = [loc EXCEPT ![w] = [Blank EXCEPT !.op = "from_bytes",
                                                         !.data = bytes_,
                                                         !.rec = NewFile(bytes_)]]
              /\ ret' = [ret EXCEPT ![w] = NoRet]
    /\ UNCHANGED <<files, nextId, fs, sched, hist, owed, tampered, instances, field>>

\* save_unique (filedb.py 141-150), self.save(): the INSERT is refused with
\* IntegrityError when a row with the digest exists.
SaveUnique(w) ==
    /\ pc[w] = "save_unique"
    /\ IF BySha(loc[w].rec.sha256sum) # {}
       THEN /\ pc' = [pc EXCEPT ![w] = "refetch"]
            /\ UNCHANGED <<files, nextId, loc, ret>>
       ELSE /\ nextId <= MaxId
            /\ files' = InsertRow(files, loc[w].rec, nextId)
            /\ nextId' = nextId + 1
            /\ FileReturn(w, FileOutcome("none", files'[nextId], FALSE))
    /\ UNCHANGED <<fs, sched, hist, owed, tampered, instances, field>>

\* save_unique returning the unsaved instance after IntegrityError.
RefetchSelf(w) ==
    /\ pc[w] = "refetch"
    /\ FileReturn(w, FileOutcome("none", loc[w].rec, TRUE))
    /\ UNCHANGED <<files, nextId, fs, sched, hist, owed, tampered, instances, field>>

\* save_unique (filedb.py 147-148): return by_sha256sum(self.sha256sum).
Refetch(w) ==
    /\ pc[w] = "refetch"
    /\ LET found == BySha(loc[w].rec.sha256sum)
       IN  IF found = {}
           THEN FileReturn(w, FileOutcome("DoesNotExist", loc[w].rec, TRUE))
           ELSE \E i \in found :
                   FileReturn(w, FileOutcome("none", files[i], TRUE))
    /\ UNCHANGED <<files, nextId, fs, sched, hist, owed, tampered, instances, field>>

NextFiledb ==
    \/ \E w \in Workers, bytes_ \in Data, save \in BOOLEAN :
          FromBytes(w, bytes_, save)
    \/ \E w \in Workers : SaveUnique(w)
    \/ \E w \in Workers : Refetch(w)

SpecFiledb == InitConc /\ [][NextFiledb]_vars

\* ------------------------------------------------- File.add (db.py 94)
\* The engine of filedb/db.py, which filedb/wsgi.py serves.  add resolves
\* the argument to bytes, hashes, and looks the digest up; it has no test
\* for empty data.  From the lookup on (db.py 119-129 and 141-154) its
\* statements are those of orm.py 99-110 and 116-131; bytes carry no name,
\* so no FileName row is made.
DbAdd(w, data) ==
    /\ CanStart(w)
    /\ LET checksum == Sha256(data)
           start == [Blank EXCEPT !.op = "add", !.data = data,
                                  !.blob0 = Note(Exists(checksum), FALSE),
                                  !.after = Note(Prior(data), Blank.after)]
       IN  \/ /\ BySha(checksum) = {}
              /\ nextId + Cardinality({v \in Workers :
                    pc[v] \in {"add_write", "add_insert"}}) <= MaxId
              /\ pc' = [pc EXCEPT ![w] = "add_write"]
              /\ loc' = [loc EXCEPT ![w] =
                    [start EXCEPT !.rec = NewRecord(data, checksum)]]
           \/ \E i \in BySha(checksum) :
              /\ files[i].hardlinks < MaxLinks
              /\ pc' = [pc EXCEPT ![w] = "add_exists"]
              /\ loc' = [loc EXCEPT ![w] =
                    [start EXCEPT !.rec = files[i],
                        !.links0 = Note(files[i].hardlinks, 0)]]
    /\ Begin(w)
    /\ UNCHANGED <<files, nextId, fs, sched, owed, tampered, instances, field>>

\* client.add (client.py 46-57): empty data is refused before anything is
\* sent; other data is posted to the server, where wsgi post calls
\* File.add(data).
ClientAdd(w, data) ==
    IF data = <<>>
    THEN /\ CanStart(w)
         /\ Answer(w, [Event(w, "FileError", 0, NoRec, FALSE)
                          EXCEPT !.op = "client_add"])
         /\ UNCHANGED <<files, nextId, fs, pc, loc, sched, owed, tampered, instances, field>>
    ELSE DbAdd(w, data)

\* File.unlink (db.py 205-224) on the row File.get(File.id == ident):
\* self.hardlinks += -1, then delete_instance() before the blob is removed
\* when the count is 0, self.save() otherwise.
DbUnlinkGet(w, id) ==
    /\ CanStart(w)
    /\ id \in DOMAIN files => files[id].hardlinks >= 1 - MaxDebt
    /\ IF id \notin DOMAIN files
       THEN /\ pc' = pc
            /\ loc' = loc
            /\ Answer(w, [Event(w, "DoesNotExist", 0, NoRec, FALSE)
                             EXCEPT !.op = "unlink", !.id = id])
       ELSE /\ loc' = [loc EXCEPT ![w] = Loaded(w, "unlink", id, FALSE)]
            /\ pc' = [pc EXCEPT ![w] =
                  IF loc'[w].rec.hardlinks = 0
                  THEN "db_unlink_del" ELSE "db_unlink_save"]
            /\ Begin(w)
    /\ UNCHANGED <<files, nextId, fs, sched, owed, tampered, instances, field>>

\* db.py 210: result = self.delete_instance().
DbUnlinkDel(w) ==
    /\ pc[w] = "db_unlink_del"
    /\ files' = DeleteRow(files, loc[w].rec.id)
    /\ owed' = Owes(loc[w].rec.id, 0)
    /\ loc' = [loc EXCEPT ![w].refs = <<DeleteCount(files, loc[w].rec.id)>>]
    /\ pc' = [pc EXCEPT ![w] = "db_unlink_fs"]
    /\ UNCHANGED <<nextId, fs, ret, sched, hist, tampered, instances, field>>

\* db.py 211-222: os.unlink(path); both errors are printed and answered
\* with False, otherwise the result of delete_instance() is returned.
DbUnlinkFs(w) ==
    /\ pc[w] = "db_unlink_fs"
    /\ \E allowed \in BOOLEAN :
       LET rec == loc[w].rec
           res == PathUnlink(fs, rec.sha256sum, allowed)
       IN  IF res = "ok"
           THEN /\ fs' = RemoveFile(fs, rec.sha256sum)
                /\ Return(w, Event(w, "none", loc[w].refs[1], rec, FALSE))
           ELSE /\ fs' = fs
                /\ Return(w, Event(w, res, 0, rec, FALSE))
    /\ UNCHANGED <<files, nextId, sched, owed, tampered, instances, field>>

\* db.py 224: return self.save().
DbUnlinkSave(w) ==
    /\ pc[w] = "db_unlink_save"
    /\ LET rec == loc[w].rec
       IN  /\ files' = SaveRow(files, rec)
           /\ owed' = Owes(rec.id, Bump(owed[rec.id], -1))
           /\ Return(w, Event(w, "none", DeleteCount(files, rec.id), rec,
                              FALSE))
    /\ UNCHANGED <<nextId, fs, sched, tampered, instances, field>>

NextDb ==
    \/ \E w \in Workers, data \in Data : DbAdd(w, data)
    \/ \E w \in Workers, data \in Data : ClientAdd(w, data)
    \/ \E w \in Workers, id \in Ids : DbUnlinkGet(w, id)
    \/ \E w \in Workers : DbUnlinkDel(w)
    \/ \E w \in Workers : DbUnlinkFs(w)
    \/ \E w \in Workers : DbUnlinkSave(w)
    \/ \E w \in Workers : AddExists(w)
    \/ \E w \in Workers : AddFix(w)
    \/ \E w \in Workers : AddInc(w)
    \/ \E w \in Workers : AddWrite(w)
    \/ \E w \in Workers : AddInsert(w)
    \/ \E checksum \in Digests, bytes \in Data : Tamper(checksum, bytes)

\* Requests to the engine of db.py served one at a time.
SpecDb == Init /\ [][NextDb]_vars

\* ------------------------------- reads next to updates of the count
\* A store that adds have filled and from which blobs may have been
\* removed from outside, with the count every row is expected to keep; one
\* client reads and touches rows while another adds and releases.
InitTouch ==
    /\ \E tbl \in SeedTables :
          /\ files = Seeded(tbl)
          /\ nextId = Len(tbl) + 1
          /\ \E kept \in SUBSET {tbl[i].sha256sum : i \in DOMAIN tbl} :
                fs = [d \in kept |-> PayloadOf(d)]
          /\ owed = [i \in Ids |->
                        IF i \in DOMAIN tbl THEN tbl[i].hardlinks ELSE 0]
    /\ pc = [w \in Workers |-> "idle"]
    /\ loc = [w \in Workers |-> Blank]
    /\ ret = [w \in Workers |-> NoRet]
    /\ hist = NoRet
    /\ tampered = FALSE
    /\ instances = NoInstances
    /\ field = NoField
    /\ sched = "concurrent"

\* The workers of the reading client, and the worker of the other client.
Readers == Workers \ {NumWorkers}

NextTouch ==
    \/ \E w \in Readers, id \in Ids, how \in {"read", "touch"} :
          ReadGet(w, id, how)
    \/ \E w \in Workers : ReadTouch(w)
    \/ \E w \in Workers : ReadOpen(w)
    \/ \E w \in Workers \ Readers, data \in Data : AddGet(w, data)
    \/ \E w \in Workers : AddExists(w)
    \/ \E w \in Workers : AddFix(w)
    \/ \E w \in Workers : AddInc(w)
    \/ \E w \in Workers : AddWrite(w)
    \/ \E w \in Workers : AddInsert(w)
    \/ \E w \in Workers \ Readers, id \in Ids : UnlinkGet(w, id, FALSE)
    \/ \E w \in Workers : UnlinkFs(w)
    \/ \E w \in Workers : UnlinkDel(w)
    \/ \E w \in Workers : UnlinkSave(w)

SpecTouch == InitTouch /\ [][NextTouch]_vars

\* ------------------------------------------------ clean (util.py 117)
\* The utility runs alone on a store that adds have filled and from which
\* blobs may have been removed from outside.
InitClean ==
    /\ \E tbl \in SeedTables :
          /\ files = Seeded(tbl)
          /\ nextId = Len(tbl) + 1
          /\ \E kept \in SUBSET {tbl[i].sha256sum : i \in DOMAIN tbl} :
                fs = [d \in kept |-> PayloadOf(d)]
    /\ pc = [w \in Workers |-> "idle"]
    /\ loc = [w \in Workers |-> Blank]
    /\ ret = [w \in Workers |-> NoRet]
    /\ hist = NoRet
    /\ owed = [i \in Ids |-> 0]
    /\ tampered = FALSE
    /\ instances = NoInstances
    /\ field = NoField
    /\ sched = "serial"

\* The references counted by main() (util.py 177-185): the ids something
\* refers to, each with the number of its references.
Censuses == UNION {[S -> 1..MaxLinks] : S \in SUBSET Ids}

\* A census that takes an id it does not hold for referred to once.
HardlinksOne(census, id) ==
    IF id \in DOMAIN census THEN census[id] ELSE 1

\* hardlinks = files[file.id] (util.py 126) on the defaultdict(int) of
\* main(): an id the census does not hold has the count int() = 0.
Hardlinks(census, id) ==
    IF id \in DOMAIN census THEN census[id] ELSE 0

\* What a finished clean has logged (util.py 140-141), with its arguments
\* and the ids the user agreed to delete.
CleanEvent(w) ==
    [op |-> "clean", refs |-> loc[w].refs,
     interactive |-> loc[w].interactive, simulate |-> loc[w].simulate,
     said |-> loc[w].said, report |-> loc[w].report, prev |-> loc[w].prev]

\* The event just completed when that was a clean over the same census,
\* asked in the same way: a simulation, or a run that wrote.
Rehearsal(census, interactive) ==
    IF /\ hist.op = "clean"
       /\ hist.refs = census
       /\ hist.interactive = interactive
    THEN [op |-> "clean", simulate |-> hist.simulate, said |-> hist.said,
          report |-> hist.report]
    ELSE Blank.prev

\* clean_no_hardlinks answering True only for what it really removed.
CleanNoHardlinksReal(interactive, simulate, reply) ==
    ~simulate /\ (~interactive \/ reply)

\* clean_no_hardlinks (util.py 84-97): if not interactive or ask(...), the
\* file is removed unless simulating and True is returned.
CleanNoHardlinks(interactive, simulate, reply) == ~interactive \/ reply

\* A clean that writes also when it simulates.
MutatesAlways(simulate) == simulate \/ ~simulate

\* if not simulate: (util.py 90 and 109)
Mutates(simulate) == ~simulate

\* update_hardlinks (util.py 103): file.hardlinks == hardlinks returns
\* False, anything else is an update.
Differs(rec, hardlinks) == rec.hardlinks # hardlinks

\* clean (util.py 120-125): the counters start at 0 and the rows of the
\* table are selected.
Clean(w, census, interactive, simulate) ==
    /\ CanStart(w)
    /\ pc' = [pc EXCEPT ![w] = "clean_next"]
    /\ loc' = [loc EXCEPT ![w] =
          [Blank EXCEPT !.op = "clean", !.todo = DOMAIN files,
                        !.refs = census, !.interactive = interactive,
                        !.simulate = simulate,
                        !.prev = Rehearsal(census, interactive)]]
    /\ Begin(w)
    /\ UNCHANGED <<files, nextId, fs, sched, owed, tampered, instances, field>>

\* util.py 125-138: the next row, in ascending order of id, counted, with
\* hardlinks = files[file.id]. A row nothing refers to goes to
\* clean_no_hardlinks, whose file.remove(force=True) is File.unlink; any
\* other row is kept and update_hardlinks compares its count.
CleanNext(w) ==
    /\ pc[w] = "clean_next"
    /\ IF loc[w].todo = {}
       THEN Return(w, CleanEvent(w))
       ELSE LET id == Lowest(loc[w].todo)
                rest == loc[w].todo \ {id}
                hardlinks == Hardlinks(loc[w].refs, id)
                tally == [loc[w].report EXCEPT !.count = @ + 1]
            IN  /\ UNCHANGED <<ret, hist>>
                /\ IF hardlinks = 0
                   THEN \E reply \in {r \in BOOLEAN : loc[w].interactive \/ r} :
                        IF CleanNoHardlinks(loc[w].interactive,
                                            loc[w].simulate, reply)
                        THEN LET l == [loc[w] EXCEPT
                                     !.todo = rest,
                                     !.report = [tally EXCEPT
                                                    !.deleted = @ + 1],
                                     !.said = IF loc[w].interactive
                                              THEN @ \cup {id} ELSE @]
                             IN  IF Mutates(loc[w].simulate)
                                 THEN /\ loc' = [loc EXCEPT ![w] =
                                            [Loaded(w, "clean", id, TRUE)
                                                EXCEPT !.todo = l.todo,
                                                       !.report = l.report,
                                                       !.said = l.said]]
                                      /\ pc' = [pc EXCEPT ![w] = "unlink_fs"]
                                 ELSE /\ loc' = [loc EXCEPT ![w] = l]
                                      /\ pc' = pc
                        ELSE /\ loc' = [loc EXCEPT ![w].todo = rest,
                                  ![w].report = [tally EXCEPT !.kept = @ + 1]]
                             /\ pc' = pc
                   ELSE IF Differs(files[id], hardlinks)
                   THEN /\ loc' = [loc EXCEPT ![w].todo = rest,
                              ![w].report = [tally EXCEPT
                                                !.kept = @ + 1,
                                                !.updated = @ + 1],
                              ![w].rec = [files[id] EXCEPT
                                             !.hardlinks = hardlinks]]
                        /\ pc' = [pc EXCEPT ![w] =
                              IF Mutates(loc[w].simulate)
                              THEN "clean_save" ELSE "clean_next"]
                   ELSE /\ loc' = [loc EXCEPT ![w].todo = rest,
                              ![w].report = [tally EXCEPT !.kept = @ + 1]]
                        /\ pc' = pc
    /\ UNCHANGED <<files, nextId, fs, sched, owed, tampered, instances, field>>

\* util.py 110: file.save().
CleanSave(w) ==
    /\ pc[w] = "clean_save"
    /\ files' = SaveRow(files, loc[w].rec)
    /\ pc' = [pc EXCEPT ![w] = "clean_next"]
    /\ UNCHANGED <<nextId, fs, loc, ret, sched, hist, owed, tampered, instances, field>>

NextClean ==
    \/ \E w \in Workers, census \in Censuses, interactive, simulate \in BOOLEAN :
          Clean(w, census, interactive, simulate)
    \/ \E w \in Workers : CleanNext(w)
    \/ \E w \in Workers : CleanSave(w)
    \/ \E w \in Workers : UnlinkFs(w)
    \/ \E w \in Workers : UnlinkDel(w)

SpecClean == InitClean /\ [][NextClean]_vars

\* ---------------------------------------------- File.stream (filedb.py)
\* Payloads of the rows that are streamed.
Payloads == UNION {[1..n -> 0..MaxByte] : n \in 0..MaxSize}

\* An optional integer: <<>> for None, <<n>> for n.
Optional(S) == {<<>>} \cup {<<n>> : n \in S}

\* The Range header of the request: absent, of the form "<start>-<end>"
\* with end possibly empty, or any other text.
Headers ==
    {[kind |-> "absent"], [kind |-> "other"]}
        \cup [kind : {"range"}, start : 0..MaxOffset,
              end : Optional(0..MaxOffset)]

\* get_range (functions.py 12-24): (0, None) without a header; otherwise
\* the groups of search(r'(\d+)-(\d*)', range), where a header that does
\* not match gives match = None and match.groups() raises AttributeError.
GetRange(header) ==
    IF header.kind = "absent"
    THEN [exc |-> "none", start |-> 0, end |-> <<>>]
    ELSE IF header.kind = "other"
    THEN [exc |-> "AttributeError", start |-> 0, end |-> <<>>]
    ELSE [exc |-> "none", start |-> header.start, end |-> header.end]

\* Python's bytes[start:stop] for start, stop >= 0: the bytes at the
\* positions start .. stop-1 (counted from 0) that exist.
PySlice(bytes_, start, stop) ==
    SubSeq(bytes_, start + 1, IF stop < Len(bytes_) THEN stop
                              ELSE Len(bytes_))

\* Python's truth value of end: None and 0 are false.
Truthy(end) == end # <<>> /\ end[1] # 0

\* stream keeping a start beyond the end of the file.
StartKept(size, start) == start

\* filedb.py 162-163: if start >= self.size: start = 0.
StartOf(size, start) == IF start >= size THEN 0 ELSE start

\* File.stream (filedb.py 158-180) on the loaded row id: the chunk of the
\* 206 response and the start, end and size of its Content-Range header.
Stream(w, id, header) ==
    /\ CanStart(w)
    /\ id \in DOMAIN files
    /\ LET file == files[id]
           range == GetRange(header)
           start == StartOf(file.size, range.start)
           chunk == IF Truthy(range.end)
                    THEN PySlice(file.bytes, start, range.end[1])
                    ELSE PySlice(file.bytes, start, Len(file.bytes))
           end == IF Truthy(range.end) THEN range.end[1] ELSE file.size - 1
       IN  IF range.exc # "none"
           THEN Answer(w, [op |-> "stream", exc |-> range.exc, id |-> id,
                           header |-> header, status |-> 500,
                           chunk |-> <<>>, start |-> 0, end |-> 0,
                           size |-> file.size])
           ELSE Answer(w, [op |-> "stream", exc |-> "none", id |-> id,
                           header |-> header, status |-> 206,
                           chunk |-> chunk, start |-> start, end |-> end,
                           size |-> file.size])
    /\ UNCHANGED <<files, nextId, fs, pc, loc, sched, owed, tampered, instances, field>>

\* A table with one saved row of filedb.py for some payload.
InitStream ==
    /\ \E bytes_ \in Payloads :
          files = InsertRow(<<>>, NewFile(bytes_), 1)
    /\ nextId = 2
    /\ fs = <<>>
    /\ pc = [w \in Workers |-> "idle"]
    /\ loc = [w \in Workers |-> Blank]
    /\ ret = [w \in Workers |-> NoRet]
    /\ hist = NoRet
    /\ owed = [i \in Ids |-> 0]
    /\ tampered = FALSE
    /\ instances = NoInstances
    /\ field = NoField
    /\ sched = "serial"

NextStream ==
    \E w \in Workers, id \in Ids, header \in Headers : Stream(w, id, header)

SpecStream == InitStream /\ [][NextStream]_vars

\* ------------------------------------- NamedFileStream (stream.py 42)
\* self._sha256sum is None
None == -1

\* hashlib.sha256(): the running state of a digest, the value of the bytes
\* fed so far and the place value of the next byte.
Sha256New == [sum |-> 0, weight |-> 1]

\* sha256sum.update(chunk): the bytes of the chunk are fed in order.
RECURSIVE Update(_, _)
Update(md, chunk) ==
    IF chunk = <<>> THEN md
    ELSE Update([sum |-> md.sum + (chunk[1] + 1) * md.weight,
                 weight |-> md.weight * (MaxByte + 2)], Tail(chunk))

\* sha256sum.hexdigest()
Hexdigest(md) == md.sum

\* file.read(chunk_size) at offset pos: at most chunk_size bytes, b'' at
\* the end of the file.
FileRead(bytes_, pos, chunk_size) ==
    SubSeq(bytes_, pos + 1,
           IF pos + chunk_size < Len(bytes_) THEN pos + chunk_size
           ELSE Len(bytes_))

\* b"".join(stream)
RECURSIVE Join(_)
Join(stream) ==
    IF stream = <<>> THEN <<>> ELSE Head(stream) \o Join(Tail(stream))

\* The iterators of chunks handed to from_stream.
RECURSIVE Total(_)
Total(stream) ==
    IF stream = <<>> THEN 0 ELSE Len(Head(stream)) + Total(Tail(stream))

Streams ==
    {s \in UNION {[1..n -> Payloads] : n \in 0..MaxChunks} :
        Total(s) <= MaxSize}

\* What the reader of the sha256sum property receives, with the passes
\* over the stream the object has made and the bytes the last one fed.
DigestEvent(w, value) ==
    [op |-> "sha256sum", bytes |-> loc[w].stream.bytes,
     chunk_size |-> loc[w].stream.chunk_size, val |-> value,
     passes |-> loc[w].stream.passes, fed |-> loc[w].stream.pos,
     chunks |-> loc[w].stream.chunks]

\* NamedFileStream.from_path (stream.py 90-93) on a file holding bytes_:
\* the digest is not known yet.
FromPath(w, bytes_, chunk_size) ==
    /\ CanStart(w)
    /\ pc' = [pc EXCEPT ![w] = "stream_held"]
    /\ loc' = [loc EXCEPT ![w] = [Blank EXCEPT !.op = "from_path",
          !.stream = [op |-> "from_path", bytes |-> bytes_,
                      chunk_size |-> chunk_size, _sha256sum |-> None,
                      md |-> Sha256New, pos |-> 0, passes |-> 0,
                      chunks |-> 0]]]
    /\ Begin(w)
    /\ UNCHANGED <<files, nextId, fs, sched, owed, tampered, instances, field>>

\* NamedFileStream.from_bytes (stream.py 75-80): FileMetaData.from_bytes
\* hashes the bytes at once.
StreamFromBytes(w, bytes_, chunk_size) ==
    /\ CanStart(w)
    /\ pc' = [pc EXCEPT ![w] = "stream_held"]
    /\ loc' = [loc EXCEPT ![w] = [Blank EXCEPT !.op = "from_bytes",
          !.stream = [op |-> "from_bytes", bytes |-> bytes_,
                      chunk_size |-> chunk_size,
                      _sha256sum |-> Sha256(bytes_),
                      md |-> Sha256New, pos |-> 0, passes |-> 0,
                      chunks |-> 0]]]
    /\ Begin(w)
    /\ UNCHANGED <<files, nextId, fs, sched, owed, tampered, instances, field>>

\* The sha256sum property (stream.py 158-169): the cached digest, or a new
\* digest and a new pass over the stream.
Sha256sum(w) ==
    /\ pc[w] = "stream_held"
    /\ IF loc[w].stream._sha256sum # None
       THEN /\ hist' = DigestEvent(w, loc[w].stream._sha256sum)
            /\ UNCHANGED <<pc, loc>>
       ELSE /\ hist' = NoRet
            /\ pc' = [pc EXCEPT ![w] = "stream_read"]
            /\ loc' = [loc EXCEPT ![w].stream.md = Sha256New,
                                  ![w].stream.pos = 0,
                                  ![w].stream.chunks = 0,
                                  ![w].stream.passes = @ + 1]
    /\ UNCHANGED <<files, nextId, fs, ret, sched, owed, tampered, instances, field>>

\* A pass that starts a new digest with every chunk.
Sha256sumReadAnew(w) ==
    /\ pc[w] = "stream_read"
    /\ LET s == loc[w].stream
           chunk == FileRead(s.bytes, s.pos, s.chunk_size)
       IN  IF chunk = <<>>
           THEN /\ loc' = [loc EXCEPT ![w].stream._sha256sum =
                              Hexdigest(s.md)]
                /\ pc' = [pc EXCEPT ![w] = "stream_held"]
                /\ hist' = DigestEvent(w, Hexdigest(s.md))
           ELSE /\ loc' = [loc EXCEPT
                      ![w].stream.md = Update(Sha256New, chunk),
                      ![w].stream.pos = s.pos + Len(chunk),
                      ![w].stream.chunks = s.chunks + 1]
                /\ pc' = pc
                /\ hist' = hist
    /\ UNCHANGED <<files, nextId, fs, ret, sched, owed, tampered, instances, field>>

\* stream.py 164-167 and stream_path / stream_bytes (20-39): the next
\* chunk is read and fed to the digest; b'' ends the pass and the
\* hexdigest is kept in self._sha256sum.
Sha256sumRead(w) ==
    /\ pc[w] = "stream_read"
    /\ LET s == loc[w].stream
           chunk == FileRead(s.bytes, s.pos, s.chunk_size)
       IN  IF chunk = <<>>
           THEN /\ loc' = [loc EXCEPT ![w].stream._sha256sum =
                              Hexdigest(s.md)]
                /\ pc' = [pc EXCEPT ![w] = "stream_held"]
                /\ hist' = DigestEvent(w, Hexdigest(s.md))
           ELSE /\ loc' = [loc EXCEPT
                      ![w].stream.md = Update(s.md, chunk),
                      ![w].stream.pos = s.pos + Len(chunk),
                      ![w].stream.chunks = s.chunks + 1]
                /\ pc' = pc
                /\ hist' = hist
    /\ UNCHANGED <<files, nextId, fs, ret, sched, owed, tampered, instances, field>>

\* The stream object is dropped.
StreamDrop(w) ==
    /\ pc[w] = "stream_held"
    /\ pc' = [pc EXCEPT ![w] = "idle"]
    /\ loc' = [loc EXCEPT ![w] = Blank]
    /\ UNCHANGED <<files, nextId, fs, ret, sched, hist, owed, tampered, instances, field>>

\* File.from_stream (filedb.py 102-105) with its default save=False:
\* from_bytes(b"".join(stream)) answers the row with the digest of the
\* joined bytes, or a new unsaved file.
FromStream(w, stream) ==
    /\ CanStart(w)
    /\ LET bytes_ == Join(stream)
           found == BySha(Sha256(bytes_))
       IN  hist' = [op |-> "from_stream", stream |-> stream,
                    file |-> IF found # {}
                             THEN files[CHOOSE i \in found : TRUE]
                             ELSE NewFile(bytes_)]
    /\ UNCHANGED <<files, nextId, fs, pc, loc, ret, sched, owed, tampered, instances, field>>

NextDigest ==
    \/ \E w \in Workers, bytes_ \in Payloads, chunk_size \in 1..MaxChunk :
          FromPath(w, bytes_, chunk_size)
    \/ \E w \in Workers, bytes_ \in Payloads, chunk_size \in 1..MaxChunk :
          StreamFromBytes(w, bytes_, chunk_size)
    \/ \E w \in Workers : Sha256sum(w)
    \/ \E w \in Workers : Sha256sumRead(w)
    \/ \E w \in Workers : StreamDrop(w)
    \/ \E w \in Workers, stream \in Streams : FromStream(w, stream)

\* Streams are hashed next to a table with one saved row.
SpecDigest == InitStream /\ [][NextDigest]_vars

\* ------------------------------------------- FileProperty (extra.py 30)
\* Instances of a model whose class holds one FileProperty over an integer
\* field.  value is the field in memory (None without a file), stored the
\* field as last saved, hooked tells that instance.save is a SaveCallback,
\* and replaced lists the ids replaced on the instance since its last save.
Instances == 1..NumInstances

InitProperty ==
    /\ InitStore
    /\ sched = "serial"

\* The model class is declared with a FileProperty, autosave or not, and
\* its instances are made.
Declare(autosave) ==
    /\ instances = NoInstances
    /\ instances' = [i \in Instances |->
          [value |-> None, stored |-> None, hooked |-> FALSE,
           replaced |-> <<>>]]
    /\ field' = [autosave |-> autosave, old_values |-> <<>>]
    /\ hist' = [op |-> "declare"]
    /\ UNCHANGED <<files, nextId, fs, pc, loc, ret, sched, owed, tampered>>

\* FileClient.add of non-empty data (http.py 46-57) as the server answers
\* it with File.add (wsgi.py 138, db.py 119-129 and 141-154): the id of the
\* row, and the table, the key and the blobs as they are afterwards.
Posted(tbl, dir, next, data) ==
    LET checksum == Sha256(data)
        found == {i \in DOMAIN tbl : tbl[i].sha256sum = checksum}
    IN  IF found = {}
        THEN [id |-> next, nextId |-> next + 1,
              files |-> InsertRow(tbl, NewRecord(data, checksum), next),
              fs |-> WriteFile(dir, checksum, data)]
        ELSE LET k == CHOOSE i \in found : TRUE
             IN  [id |-> k, nextId |-> next,
                  files |-> SaveRow(tbl, [tbl[k] EXCEPT !.hardlinks = @ + 1]),
                  fs |-> IF checksum \in DOMAIN dir THEN dir
                         ELSE WriteFile(dir, checksum, data)]

\* FileProperty.delete (extra.py 88-93), FileClient.delete (http.py 94-105)
\* as the server answers it with File.unlink (wsgi.py 166-170, db.py
\* 205-224): an unknown id changes nothing; the count goes down by one and
\* at zero the row is deleted and the blob, which the server may remove,
\* is removed.
Deleted(store, file_id) ==
    IF file_id \notin DOMAIN store.files THEN store
    ELSE LET rec == [store.files[file_id] EXCEPT !.hardlinks = @ - 1]
         IN  IF rec.hardlinks = 0
             THEN [files |-> DeleteRow(store.files, file_id),
                   fs |-> RemoveFile(store.fs, rec.sha256sum)]
             ELSE [files |-> SaveRow(store.files, rec), fs |-> store.fs]

\* SaveCallback.__call__ (extra.py 23-24): while self.field.old_values:
\* self.field.delete(self.field.old_values.pop()).
RECURSIVE Drained(_, _)
Drained(store, old_values) ==
    IF old_values = <<>> THEN store
    ELSE Drained(Deleted(store, old_values[Len(old_values)]),
                 SubSeq(old_values, 1, Len(old_values) - 1))

\* What a call on an instance has done: the exception raised, the ids it
\* released, and the ids replaced on the instance since its last save.
PropertyEvent(name, i, exc, released) ==
    [op |-> name, instance |-> i, exc |-> exc, released |-> released,
     replaced |-> instances[i].replaced]

\* FileProperty.__set__ (extra.py 67-86) with data None (<<>>) or bytes
\* (<<bytes>>).
Set(i, data) ==
    /\ AllIdle
    /\ i \in DOMAIN instances
    /\ LET current_value == instances[i].value
           sent == data # <<>> /\ data[1] # <<>>
           post == IF sent THEN Posted(files, fs, nextId, data[1])
                   ELSE [id |-> None, nextId |-> nextId, files |-> files,
                         fs |-> fs]
           new_value == post.id
           added == [files |-> post.files, fs |-> post.fs]
       IN  IF data # <<>> /\ data[1] = <<>>
           THEN /\ hist' = PropertyEvent("set", i, "FileError", <<>>)
                /\ UNCHANGED <<files, nextId, fs, instances, field>>
           ELSE /\ post.nextId <= MaxId + 1
                /\ \A k \in DOMAIN post.files :
                      post.files[k].hardlinks <= MaxLinks
                /\ nextId' = post.nextId
                /\ IF field.autosave
                   THEN LET store == IF current_value # None
                                     THEN Deleted(added, current_value)
                                     ELSE added
                        IN  /\ files' = store.files
                            /\ fs' = store.fs
                            /\ instances' = [instances EXCEPT
                                  ![i].value = new_value,
                                  ![i].stored = new_value]
                            /\ field' = field
                            /\ hist' = PropertyEvent("set", i, "none",
                                  IF current_value # None
                                  THEN <<current_value>> ELSE <<>>)
                   ELSE /\ files' = added.files
                        /\ fs' = added.fs
                        /\ current_value # None =>
                              /\ Len(field.old_values) < MaxOld
                              /\ Len(instances[i].replaced) < MaxOld
                        /\ instances' = [instances EXCEPT
                              ![i].value = new_value,
                              ![i].hooked = @ \/ current_value # None,
                              ![i].replaced =
                                  IF current_value # None
                                  THEN Append(@, current_value) ELSE @]
                        /\ field' = [field EXCEPT !.old_values =
                              IF current_value # None
                              THEN Append(@, current_value) ELSE @]
                        /\ hist' = PropertyEvent("set", i, "none", <<>>)
    /\ UNCHANGED <<pc, loc, ret, sched, owed, tampered>>

\* instance.save(): the SaveCallback (extra.py 22-27) when one is set,
\* which releases the old values of the FileProperty, the list all
\* instances of the model share, saves and puts the save method of the
\* model back; the save method of the model otherwise.
Save(i) ==
    /\ AllIdle
    /\ i \in DOMAIN instances
    /\ LET old_values == IF instances[i].hooked THEN field.old_values
                         ELSE <<>>
           store == Drained([files |-> files, fs |-> fs], old_values)
       IN  /\ files' = store.files
           /\ fs' = store.fs
           /\ field' = IF instances[i].hooked
                       THEN [field EXCEPT !.old_values = <<>>]
                       ELSE field
           /\ instances' = [instances EXCEPT
                 ![i].stored = instances[i].value,
                 ![i].hooked = FALSE,
                 ![i].replaced = <<>>]
           /\ hist' = PropertyEvent("save", i, "none", old_values)
    /\ UNCHANGED <<nextId, pc, loc, ret, sched, owed, tampered>>

NextProperty ==
    \/ \E autosave \in BOOLEAN : Declare(autosave)
    \/ \E i \in Instances, data \in Optional(Data) : Set(i, data)
    \/ \E i \in Instances : Save(i)

SpecProperty == InitProperty /\ [][NextProperty]_vars

\* ---------------------------------------------------------------- claims

\* C1: two successive add(C) calls return the same record (same id and
\* digest); the second raises the stored count by exactly 1 and writes no
\* blob.
AddTwiceSameRecord ==
    (hist.op = "add" /\ hist.after.id # 0) =>
        /\ hist.exc = "none"
        /\ hist.id = hist.after.id
        /\ hist.sha = hist.after.sha
        /\ hist.links0 = hist.after.links
        /\ hist.links = hist.after.links + 1
        /\ StoredLinks(files, hist.id) = hist.after.links + 1
        /\ ~hist.wrote

AddTwiceReached ==
    /\ hist.op = "add"
    /\ hist.after.id # 0
    /\ hist.exc = "none"
    /\ StoredLinks(files, hist.id) = 2

\* C5: the stored hardlinks of every row is at least 0 in every reachable
\* state.
CountNeverNegative == \A i \in DOMAIN files : files[i].hardlinks >= 0

\* C6: unlink of a row whose stored count is 1, with its blob present and
\* deletable, removes the row and the blob: no row is found by id or by
\* digest and the blob file does not exist.
LastReleaseRemoves ==
    (/\ hist.op = "unlink"
     /\ hist.links0 = 1
     /\ hist.blob0
     /\ hist.exc # "PermissionError") =>
        /\ hist.exc = "none"
        /\ hist.id \notin DOMAIN files
        /\ BySha(hist.sha) = {}
        /\ ~Exists(hist.sha)

LastReleaseReached ==
    /\ hist.op = "unlink"
    /\ hist.links0 = 1
    /\ hist.blob0
    /\ ~hist.force
    /\ hist.exc = "none"
    /\ hist.val = 1

\* C7: between completed operations every row has a stored count of at
\* least 1.
NoZeroCountPersists ==
    AllIdle => \A i \in DOMAIN files : files[i].hardlinks >= 1

\* C8: with no tampering, between completed operations a blob exists for a
\* digest exactly when a row with that digest exists.
BlobIffRecord ==
    (AllIdle /\ ~tampered) =>
        \A d \in Digests : Exists(d) <=> BySha(d) # {}

\* C9: when the blob write fails while add creates a row for a new digest,
\* add fails and no row with that digest is in the table.
FailedWriteLeavesNoRecord ==
    (/\ hist.op = "add"
     /\ hist.exc = "OSError"
     /\ hist.links0 = 0
     /\ hist.id = 0) => BySha(hist.sha) = {}

FailedWriteReached ==
    /\ hist.op = "add"
    /\ hist.exc = "OSError"
    /\ hist.id = 0
    /\ hist.wrote
    /\ BySha(hist.sha) = {}

\* C2: under any interleaving of concurrent adds no two rows have the same
\* digest.
DigestUnique ==
    \A i, j \in DOMAIN files :
        files[i].sha256sum = files[j].sha256sum => i = j

\* C3: of two workers that release the same row concurrently, at most one
\* gets past the removal of the blob to the deletion of the row.
Removing(w, id) ==
    \/ pc[w] = "unlink_del" /\ loc[w].rec.id = id
    \/ /\ pc[w] = "idle"
       /\ ret[w].op = "unlink"
       /\ ret[w].id = id
       /\ ret[w].exc = "none"
       /\ (ret[w].links = 0 \/ ret[w].force)

OneDeletionPerRecord ==
    \A id \in Ids : \A v, w \in Workers :
        (Removing(v, id) /\ Removing(w, id)) => v = w

OneDeletionReached ==
    \E id \in Ids : \E v, w \in Workers :
        /\ v # w
        /\ Removing(v, id)
        /\ pc[v] = "idle"
        /\ pc[w] = "idle"
        /\ ret[w].op = "unlink"
        /\ ret[w].id = id
        /\ ~ret[w].force
        /\ ret[w].links = 0
        /\ ret[w].exc = "FileNotFoundError"

\* C4: once the add-hits and releases on a row have all completed, the
\* stored count is the count those updates add up to.
CountsAddUp ==
    AllIdle => \A i \in DOMAIN files :
        owed[i] \in 1..MaxLinks => files[i].hardlinks = owed[i]

\* C10: a creator that loses the insert race does not fail; it returns the
\* saved row of the winner, the same row every other saving caller of
\* from_bytes with that content received.
Received(w, checksum) ==
    /\ ret[w].op = "from_bytes"
    /\ ret[w].exc = "none"
    /\ ret[w].sha = checksum
    /\ ret[w].id # 0

LoserGetsWinnersRecord ==
    \A w \in Workers :
        (ret[w].op = "from_bytes" /\ ret[w].lost) =>
            /\ ret[w].exc = "none"
            /\ ret[w].id \in DOMAIN files
            /\ files[ret[w].id].sha256sum = ret[w].sha
            /\ \A v \in Workers :
                  Received(v, ret[w].sha) => ret[v].id = ret[w].id

LoserReached ==
    \E v, w \in Workers :
        /\ v # w
        /\ ret[w].op = "from_bytes"
        /\ ret[w].lost
        /\ Received(v, ret[w].sha)
        /\ ~ret[v].lost
        /\ ret[v].id = ret[w].id

\* C12: a verified read (File.data) of the row a successful add(C) has just
\* returned, with the blob readable and never tampered with, returns bytes
\* equal to C whose digest is the stored digest, after a miss and after a
\* hit.
RoundTrip ==
    (/\ hist.op = "data"
     /\ hist.data # <<>>
     /\ ~tampered
     /\ hist.exc # "PermissionError") =>
        /\ hist.exc = "none"
        /\ hist.bytes = hist.data
        /\ Sha256(hist.bytes) = hist.sha

RoundTripReached ==
    /\ hist.op = "data"
    /\ hist.data # <<>>
    /\ ~tampered
    /\ hist.links = 2
    /\ hist.exc = "none"
    /\ hist.bytes = hist.data

\* C13: when the blob of a live row holds bytes whose digest is not the
\* stored digest, File.data raises ChecksumMismatch and File.read returns
\* the bytes of the blob without error.
Corrupted(ev) ==
    /\ ev.op \in {"data", "read"}
    /\ ev.exc # "DoesNotExist"
    /\ ev.readable
    /\ Exists(ev.sha)
    /\ Sha256(fs[ev.sha]) # ev.sha

CorruptionDetected ==
    Corrupted(hist) =>
        /\ hist.op = "data" => hist.exc = "ChecksumMismatch"
        /\ hist.op = "read" => hist.exc = "none" /\ hist.bytes = fs[hist.sha]

CorruptionReached ==
    /\ Corrupted(hist)
    /\ hist.op = "read"
    /\ hist.after.id = hist.id
    /\ hist.exc = "none"
    /\ hist.bytes = fs[hist.sha]

\* C14: File.consistent never raises, and answers True exactly when the
\* blob exists, can be read, and has the stored digest.
ConsistentNeverRaises ==
    (hist.op = "consistent" /\ hist.exc # "DoesNotExist") =>
        /\ hist.exc = "none"
        /\ hist.val = 1 <=> /\ Exists(hist.sha)
                            /\ hist.readable
                            /\ Sha256(fs[hist.sha]) = hist.sha

\* C15: unlink of a row whose stored count is 1 and whose blob is already
\* missing deletes the row and reports success.
MissingBlobReleased ==
    (hist.op = "unlink" /\ hist.links0 = 1 /\ ~hist.blob0) =>
        /\ Seen(hist).raised = "none"
        /\ Seen(hist).val # 0
        /\ hist.id \notin DOMAIN files

\* C16: what the caller of unlink receives when the removal of the blob
\* fails with PermissionError is a failure, and differs from what the
\* caller of the preceding unlink received when the blob was missing.
PermissionFailureDistinct ==
    (/\ hist.op = "unlink"
     /\ hist.exc = "PermissionError"
     /\ hist.after.id # 0) =>
        /\ Seen(hist) # [raised |-> "none", val |-> 1]
        /\ Seen(hist) # hist.after.seen

\* C17: after File.purge the last orphan it found, a row with a stored
\* count of at least 1, is gone together with its blob, whatever the state
\* of the blob before.
PurgeRemoves ==
    (hist.op = "purge" /\ hist.id # 0 /\ hist.links0 >= 1) =>
        /\ hist.id \notin DOMAIN files
        /\ ~Exists(hist.sha)

\* C18: every step of add, unlink or purge changes a row with a stored
\* count of at least 1 only this way: absent -> 1 (add-miss), n -> n+1
\* (add-hit), n -> n-1 with n > 1 (unforced unlink, blob kept, True
\* returned), present -> absent (unlink at n = 1, forced unlink, purge);
\* and an unforced unlink at n > 1 does persist n-1.
Acting == {loc[w].op : w \in {v \in Workers : pc[v] # "idle"}}

Moves(id) ==
    \/ /\ id \notin DOMAIN files
       /\ id \notin DOMAIN files'
    \/ /\ id \in DOMAIN files
       /\ id \in DOMAIN files'
       /\ files'[id].hardlinks = files[id].hardlinks
    \/ /\ id \notin DOMAIN files
       /\ id \in DOMAIN files'
       /\ Acting = {"add"}
       /\ BySha(files'[id].sha256sum) = {}
       /\ files'[id].hardlinks = 1
    \/ /\ id \in DOMAIN files
       /\ id \in DOMAIN files'
       /\ Acting = {"add"}
       /\ files'[id].hardlinks = files[id].hardlinks + 1
    \/ /\ id \in DOMAIN files
       /\ id \in DOMAIN files'
       /\ Acting = {"unlink"}
       /\ \A w \in Workers : ~loc[w].force
       /\ files[id].hardlinks > 1
       /\ files'[id].hardlinks = files[id].hardlinks - 1
       /\ fs' = fs
       /\ Seen(hist') = [raised |-> "none", val |-> 1]
    \/ /\ id \in DOMAIN files
       /\ id \notin DOMAIN files'
       /\ \/ Acting = {"purge"}
          \/ /\ Acting = {"unlink"}
             /\ \/ files[id].hardlinks = 1
                \/ \E w \in Workers : loc[w].force
       /\ files[id].sha256sum \notin DOMAIN fs'

Kept ==
    (hist.op = "unlink" /\ ~hist.force /\ hist.links0 > 1) =>
        /\ Seen(hist) = [raised |-> "none", val |-> 1]
        /\ StoredLinks(files, hist.id) = hist.links0 - 1
        /\ hist.blob0 => Exists(hist.sha)

EmptyAddRefused ==
    (hist.op \in {"add", "client_add"} /\ hist.data = <<>>) =>
        /\ hist.exc # "none"
        /\ BySha(Sha256(<<>>)) = {}
        /\ ~Exists(Sha256(<<>>))

\* C19: for a request whose start is below the size of the file, stream
\* serves the bytes start..end inclusive (end - start + 1 bytes) when an end
\* below the size is given, the size - start bytes from start when no end
\* is given, and the whole file when there is no Range header.
RangeServed ==
    (/\ hist.op = "stream"
     /\ hist.header.kind # "other"
     /\ GetRange(hist.header).start < hist.size) =>
        LET range == GetRange(hist.header)
            bytes_ == files[hist.id].bytes
        IN  /\ hist.exc = "none"
            /\ hist.header.kind = "absent" => hist.chunk = bytes_
            /\ range.end = <<>> =>
                  /\ Len(hist.chunk) = hist.size - range.start
                  /\ hist.chunk = SubSeq(bytes_, range.start + 1, hist.size)
            /\ (/\ range.end # <<>>
                /\ range.start <= range.end[1]
                /\ range.end[1] < hist.size) =>
                  /\ Len(hist.chunk) = range.end[1] - range.start + 1
                  /\ hist.chunk =
                        SubSeq(bytes_, range.start + 1, range.end[1] + 1)

\* C20: a request whose start is at or beyond the size of the file, with
\* no end, is served the whole file from start 0.
StartClamped ==
    (/\ hist.op = "stream"
     /\ hist.header.kind = "range"
     /\ hist.header.start >= hist.size
     /\ hist.header.end = <<>>) =>
        /\ hist.exc = "none"
        /\ hist.start = 0
        /\ hist.chunk = files[hist.id].bytes
        /\ Len(hist.chunk) = hist.size

StartClampedReached ==
    /\ hist.op = "stream"
    /\ hist.header.kind = "range"
    /\ hist.header.start > hist.size
    /\ hist.header.end = <<>>
    /\ hist.size >= 2
    /\ hist.start = 0
    /\ Len(hist.chunk) = hist.size

\* C21: in every streamed response the end of the Content-Range header is
\* start + length - 1, where length is the number of bytes of the body, and
\* its total is the size of the row.
ContentRangeMatches ==
    (hist.op = "stream" /\ hist.exc = "none") =>
        /\ hist.end = hist.start + Len(hist.chunk) - 1
        /\ hist.size = files[hist.id].size

\* C26: a read that succeeds, verified or not, leaves the stored access
\* counter one above what it was and the time of the last access set; a
\* read that fails because the blob is missing leaves the counter as it
\* was.  (hist.accessed is the counter of the instance after its touch.)
AccessCounted ==
    (hist.op \in {"read", "data"} /\ hist.exc # "DoesNotExist") =>
        /\ hist.exc = "none" =>
              /\ files[hist.id].accessed = hist.accessed
              /\ files[hist.id].last_access = 1
        /\ hist.exc = "FileNotFoundError" =>
              files[hist.id].accessed = hist.accessed - 1

\* C27: touch raises the stored access counter of its row by exactly 1 and
\* sets the time of the last access; every other column of the row, every
\* other row and every blob stay as they are.
TouchFrame ==
    [][\A w \in Workers :
          (pc[w] = "read_touch" /\ loc[w].op = "touch") =>
              /\ fs' = fs
              /\ files' = [files EXCEPT
                              ![loc[w].rec.id].accessed = @ + 1,
                              ![loc[w].rec.id].last_access = 1]]_vars

TouchFrameReached ==
    /\ hist.op = "touch"
    /\ hist.exc = "none"
    /\ hist.id \in DOMAIN files
    /\ files[hist.id].accessed = 2
    /\ files[hist.id].last_access = 1
    /\ files[hist.id].hardlinks = 2
    /\ Exists(hist.sha)

\* C28: add takes the content for a miss exactly when no row has its
\* digest, whether or not a blob file for the digest exists: a miss inserts
\* a row with count 1, and a hit stays a hit when the blob is missing.
Starts(w) == pc[w] = "idle" /\ pc'[w] # "idle" /\ loc'[w].op = "add"

IndexDecides ==
    [][\A w \in Workers :
          /\ Starts(w) =>
                pc'[w] = IF BySha(Sha256(loc'[w].data)) = {}
                         THEN "add_write" ELSE "add_exists"
          /\ (pc[w] # "add_write" /\ pc'[w] = "add_write") => Starts(w)
          /\ (pc[w] \in {"add_exists", "add_fix"} /\ pc'[w] # "idle") =>
                pc'[w] \in {"add_fix", "add_inc"}
          /\ pc[w] = "add_insert" =>
                /\ BySha(loc[w].rec.sha256sum) = {}
                /\ \E i \in DOMAIN files' \ DOMAIN files :
                      /\ files'[i].sha256sum = loc[w].rec.sha256sum
                      /\ files'[i].hardlinks = 1
          /\ pc[w] = "add_inc" => loc[w].rec.id \in DOMAIN files]_vars

IndexDecidesReached ==
    /\ hist.op = "add"
    /\ hist.exc = "none"
    /\ hist.blob0
    /\ hist.wrote
    /\ hist.links0 = 0
    /\ hist.id \in DOMAIN files
    /\ files[hist.id].hardlinks = 1

\* C29: a release that brings the count to zero removes the blob before
\* the row: in no state, during the release or after it, failed or not, is
\* the row of the release gone while a blob of its digest is still there.
BlobGoesFirst ==
    /\ \A w \in Workers :
          (/\ pc[w] # "idle"
           /\ loc[w].op = "unlink"
           /\ loc[w].rec.id \notin DOMAIN files) =>
              ~Exists(loc[w].rec.sha256sum)
    /\ (/\ hist.op = "unlink"
        /\ hist.exc # "DoesNotExist"
        /\ hist.id \notin DOMAIN files) => ~Exists(hist.sha)

\* C30: whatever the interleaving of adds and releases of one content, once
\* they have completed with more adds than releases counted on a row, that
\* row is stored and its blob is on disk; an add that hit the row while a
\* release brought it to zero has not handed out a deleted record.
LiveWhileOwed ==
    AllIdle => \A i \in Ids :
        owed[i] \in 1..MaxLinks =>
            /\ i \in DOMAIN files
            /\ Exists(files[i].sha256sum)

\* C22: when a clean that neither simulates nor asks has finished, no row
\* the census counts 0 times is left, and every row left stores the count
\* of the census.
CleanReconciles ==
    (hist.op = "clean" /\ ~hist.simulate /\ ~hist.interactive) =>
        \A i \in DOMAIN files :
            /\ Hardlinks(hist.refs, i) # 0
            /\ files[i].hardlinks = Hardlinks(hist.refs, i)

\* C23: no step of a simulating clean changes the table or the blobs,
\* whatever the census.
SimulationWritesNothing ==
    [][(\E w \in Workers : loc[w].op = "clean" /\ loc[w].simulate) =>
          UNCHANGED <<files, fs>>]_vars

SimulationReached ==
    /\ hist.op = "clean"
    /\ hist.simulate
    /\ hist.report.deleted >= 1
    /\ hist.report.updated >= 1

\* C24: a clean that writes, run on the store and the census of a
\* simulation and given the same answers, logs the deleted, kept and
\* updated counts the simulation logged.
SameReport ==
    (/\ hist.op = "clean"
     /\ ~hist.simulate
     /\ hist.prev.op = "clean"
     /\ hist.prev.simulate
     /\ hist.prev.said = hist.said) =>
        hist.report = hist.prev.report

SameReportReached ==
    /\ hist.op = "clean"
    /\ ~hist.simulate
    /\ hist.prev.op = "clean"
    /\ hist.prev.simulate
    /\ hist.prev.said = hist.said
    /\ hist.report.deleted >= 1
    /\ hist.report.updated >= 1

\* C25: the digest NamedFileStream.sha256sum builds chunk by chunk, and
\* the digest of the file from_stream makes of an iterator of chunks, is
\* the digest of the bytes in one piece, however they are cut into chunks;
\* the property makes one pass over the stream, feeding every byte once,
\* and no further pass when it is read again.
ChunkedDigest ==
    /\ hist.op = "sha256sum" =>
          /\ hist.val = Sha256(hist.bytes)
          /\ hist.passes <= 1
          /\ hist.passes = 1 => hist.fed = Len(hist.bytes)
    /\ hist.op = "from_stream" =>
          /\ hist.file.sha256sum = Sha256(Join(hist.stream))
          /\ hist.file.bytes = Join(hist.stream)
    /\ \A w \in Workers :
          (pc[w] = "stream_held" /\ loc[w].stream.passes = 0) =>
              loc[w].stream._sha256sum \in {None, Sha256(loc[w].stream.bytes)}

ChunkedDigestReached ==
    /\ hist.op = "sha256sum"
    /\ hist.passes = 1
    /\ hist.chunks >= 2
    /\ Len(hist.bytes) % hist.chunk_size # 0

\* C31: a touch or a read running next to the add-hits and releases of
\* another client does not write over the count: once all have completed,
\* every row stores its initial count plus the add-hits minus the releases.
TouchKeepsCount ==
    AllIdle => \A i \in Ids :
        (i \in DOMAIN files /\ owed[i] \in 0..MaxLinks) =>
            StoredLinks(files, i) = owed[i]

\* C32: an unlink that reports failure, the blob being missing or not
\* deletable, has changed nothing: the row is there with the count it had
\* before the call, and the blob is there or missing as before.
FailedReleaseChangesNothing ==
    (/\ hist.op = "unlink"
     /\ hist.exc \in {"FileNotFoundError", "PermissionError"}) =>
        /\ hist.id \in DOMAIN files
        /\ StoredLinks(files, hist.id) = hist.links0
        /\ Exists(hist.sha) = hist.blob0

\* C33: File.consistent only checks: no step of it changes the access
\* counter, the time of the last access or any other stored field of a
\* row, whether it answers True or False.
ConsistentIsPure ==
    [][(\E w \in Workers : loc[w].op = "consistent") =>
          UNCHANGED files]_vars

ContentRangeWithin ==
    (hist.op = "stream" /\ hist.exc = "none" /\ hist.size >= 1) =>
        /\ 0 <= hist.start
        /\ hist.start <= hist.end
        /\ hist.end <= hist.size - 1

\* C36: the number of deletions a clean that writes has logged is the
\* number of rows it removed from the table (the rows it processed less
\* the rows left): a row is counted as deleted only if it was removed.
DeletedAreRemoved ==
    (hist.op = "clean" /\ ~hist.simulate) =>
        hist.report.deleted =
            hist.report.count - Cardinality(DOMAIN files)

\* C37: clean visits every row of the table, and a row whose id the census
\* does not hold is handled as a row without references: it is counted,
\* not updated, and handed to clean_no_hardlinks, which unless it asks and
\* is told no counts it as deleted and, when not simulating, removes it.
Unlisted(w) ==
    /\ pc[w] = "clean_next"
    /\ loc[w].todo # {}
    /\ Lowest(loc[w].todo) \notin DOMAIN loc[w].refs

AbsentMeansUnreferenced ==
    [][\A w \in Workers :
          /\ (pc[w] = "idle" /\ pc'[w] = "clean_next") =>
                loc'[w].todo = DOMAIN files
          /\ Unlisted(w) =>
                /\ loc'[w].todo = loc[w].todo \ {Lowest(loc[w].todo)}
                /\ loc'[w].report.count = loc[w].report.count + 1
                /\ loc'[w].report.updated = loc[w].report.updated
                /\ ~loc[w].interactive =>
                      /\ loc'[w].report.deleted = loc[w].report.deleted + 1
                      /\ ~loc[w].simulate =>
                            /\ pc'[w] = "unlink_fs"
                            /\ loc'[w].rec.id = Lowest(loc[w].todo)
                            /\ loc'[w].force]_vars

AbsentReached ==
    /\ hist.op = "clean"
    /\ ~hist.interactive
    /\ ~hist.simulate
    /\ \E i \in Ids :
          /\ i < nextId
          /\ i \notin DOMAIN hist.refs
          /\ i \notin DOMAIN files

\* C38: a clean that writes and does not ask, run again with the same
\* census on the store its first run left, deletes nothing and updates
\* nothing.
CleanIdempotent ==
    (/\ hist.op = "clean"
     /\ ~hist.simulate
     /\ ~hist.interactive
     /\ hist.prev.op = "clean"
     /\ ~hist.prev.simulate) =>
        /\ hist.report.deleted = 0
        /\ hist.report.updated = 0

\* C39: with a FileProperty that does not autosave, setting the property
\* releases no file; the save of an instance releases the ids replaced on
\* that instance since its last save, each once, and no id replaced on
\* another instance.
Times(seq, x) == Cardinality({k \in DOMAIN seq : seq[k] = x})

ReleasesItsOwn ==
    (hist.op \in {"set", "save"} /\ ~field.autosave) =>
        /\ hist.op = "set" => hist.released = <<>>
        /\ hist.op = "save" =>
              \A id \in Ids :
                  Times(hist.released, id) = Times(hist.replaced, id)
====
